---- MODULE Spec2Model ----
(***************************************************************************)
(* Model of the log-processor pipeline (src/main.go, src/processor.go):    *)
(*                                                                         *)
(*   readLogs -> processLogs (N workers) -> tee -> calculateStats          *)
(*                                             \-> filterLogs -> calculateStats *)
(*                                                                         *)
(* Every goroutine is a process with a program counter.  An unbuffered Go  *)
(* channel is a rendezvous: the send and the receive are one joint step of *)
(* the sender (blocked at its send) and the receiver (blocked at its       *)
(* receive).  The two tee outputs are buffered channels: bounded queues.   *)
(* The context is a flag that an environment step (the holder of the       *)
(* cancel function) may set at any moment; main's deferred cancel sets it  *)
(* when main returns.  A goroutine is followed to its own end: the exit   *)
(* of the process at main's return stops no goroutine of the model.        *)
(*                                                                         *)
(* numWorkers and bufferSize are the parameters of processLogs and tee;    *)
(* main passes 3 and 100, the model draws them from 1 .. MaxWorkers and    *)
(* 1 .. MaxBuf.                                                            *)
(*                                                                         *)
(* A file is a sequence of lines, a line a sequence of one-character       *)
(* strings; every line of the model is far shorter than the scanner's      *)
(* token limit, and reading never fails with an I/O error.                 *)
(***************************************************************************)
EXTENDS Integers, Sequences, FiniteSets, TLC

(***************************************************************************)
(* Bounds of the model.                                                    *)
(***************************************************************************)
\* largest number of data lines after the header line
MaxLines == 2
\* largest worker count handed to processLogs
MaxWorkers == 2
\* largest buffer capacity handed to tee
MaxBuf == 2

(***************************************************************************)
(* Program constants.                                                      *)
(***************************************************************************)
\* parseLogLine: the number of fields of a well-formed line
NumFields == 6
\* main: the threshold handed to filterLogs
MinStatus == 400
\* calculateStats: the status code from which a request counts as an error
ErrorStatus == 400

(***************************************************************************)
(* Sequences, multisets.                                                   *)
(***************************************************************************)
Range(s) == {s[i] : i \in DOMAIN s}

\* the multiset of the elements of s: element |-> number of occurrences
BagOf(s) == [e \in Range(s) |-> Cardinality({i \in DOMAIN s : s[i] = e})]

RECURSIVE SumOver(_, _)
SumOver(f, S) ==
    IF S = {} THEN 0
    ELSE LET x == CHOOSE y \in S : TRUE IN f[x] + SumOver(f, S \ {x})

IsPrefix(s, t) == Len(s) <= Len(t) /\ SubSeq(t, 1, Len(s)) = s

(***************************************************************************)
(* strings.Split(line, ","): the fields between the commas; a line with no *)
(* comma, the empty line included, is one field.                           *)
(***************************************************************************)
RECURSIVE SplitFrom(_, _)
SplitFrom(line, cur) ==
    IF line = <<>> THEN <<cur>>
    ELSE IF Head(line) = ","
         THEN <<cur>> \o SplitFrom(Tail(line), <<>>)
         ELSE SplitFrom(Tail(line), Append(cur, Head(line)))

Split(line) == SplitFrom(line, <<>>)

(***************************************************************************)
(* strconv.Atoi: an optional sign followed by at least one decimal digit,  *)
(* nothing else.  The result is [ok, val].                                 *)
(***************************************************************************)
Digits == {"0", "1", "2", "3", "4", "5", "6", "7", "8", "9"}

DigitVal(c) ==
    CASE c = "0" -> 0 [] c = "1" -> 1 [] c = "2" -> 2 [] c = "3" -> 3
      [] c = "4" -> 4 [] c = "5" -> 5 [] c = "6" -> 6 [] c = "7" -> 7
      [] c = "8" -> 8 [] c = "9" -> 9

RECURSIVE DecimalVal(_, _)
DecimalVal(ds, acc) ==
    IF ds = <<>> THEN acc ELSE DecimalVal(Tail(ds), 10 * acc + DigitVal(Head(ds)))

Atoi(s) ==
    LET signed == s # <<>> /\ Head(s) \in {"+", "-"}
        ds     == IF signed THEN Tail(s) ELSE s
    IN  IF ds = <<>> \/ \E i \in DOMAIN ds : ds[i] \notin Digits
        THEN [ok |-> FALSE, val |-> 0]
        ELSE [ok |-> TRUE,
              val |-> IF signed /\ Head(s) = "-" THEN 0 - DecimalVal(ds, 0)
                      ELSE DecimalVal(ds, 0)]

(***************************************************************************)
(* parseLogLine: [ok, entry].                                              *)
(***************************************************************************)
NoEntry ==
    [Timestamp |-> <<>>, IP |-> <<>>, Method |-> <<>>, URL |-> <<>>,
     StatusCode |-> 0, ResponseTime |-> 0]

parseLogLine(line) ==
    LET fields == Split(line) IN
    IF Len(fields) # NumFields THEN [ok |-> FALSE, entry |-> NoEntry]
    ELSE LET statusCode   == Atoi(fields[5])
             responseTime == Atoi(fields[6])
         IN  IF ~statusCode.ok THEN [ok |-> FALSE, entry |-> NoEntry]
             ELSE IF ~responseTime.ok THEN [ok |-> FALSE, entry |-> NoEntry]
             ELSE [ok |-> TRUE,
                   entry |-> [Timestamp |-> fields[1], IP |-> fields[2],
                              Method |-> fields[3], URL |-> fields[4],
                              StatusCode |-> statusCode.val,
                              ResponseTime |-> responseTime.val]]

(***************************************************************************)
(* The input files of the model.                                           *)
(***************************************************************************)
\* timestamp,ip,method,url,status_code,response_time_ms
HeaderLine == <<"t", ",", "i", ",", "m", ",", "u", ",", "s", ",", "r">>
\* t,A,G,u,399,10 : well-formed, just below both thresholds
LineOkA == <<"t", ",", "A", ",", "G", ",", "u", ",", "3", "9", "9", ",", "1", "0">>
\* t,B,P,u,400,30 : well-formed, exactly at both thresholds
LineErrB == <<"t", ",", "B", ",", "P", ",", "u", ",", "4", "0", "0", ",", "3", "0">>
\* t,A,G,u : four fields
LineShort == <<"t", ",", "A", ",", "G", ",", "u">>
\* t,A,G,u,4x,10 : the status code is no integer
LineBadStatus == <<"t", ",", "A", ",", "G", ",", "u", ",", "4", "x", ",", "1", "0">>
\* t,A,G,u,500, : the response time is no integer
LineBadTime == <<"t", ",", "A", ",", "G", ",", "u", ",", "5", "0", "0", ",">>
\* the empty line
LineEmpty == <<>>

\* the well-formed rows, and every kind of line
GoodLines == {LineOkA, LineErrB}
AllLines == {LineOkA, LineErrB, LineShort, LineBadStatus, LineBadTime, LineEmpty}

RECURSIVE SeqsUpTo(_, _)
SeqsUpTo(S, n) ==
    IF n = 0 THEN {<<>>}
    ELSE LET shorter == SeqsUpTo(S, n - 1)
         IN  shorter \cup {Append(s, x) : s \in {t \in shorter : Len(t) = n - 1}, x \in S}

\* files with lines that do not parse, and one whose first line is a data row
SampleFiles ==
    {<<HeaderLine, LineOkA, LineShort>>,
     <<HeaderLine, LineBadStatus, LineErrB, LineEmpty>>,
     <<LineErrB, LineBadTime, LineOkA>>}

\* the first n rows of a pattern of well-formed rows: all below the
\* thresholds, all at the thresholds, or alternating from either
RowsOf(pattern, n) ==
    [i \in 1 .. n |->
        CASE pattern = "ok"    -> LineOkA
          [] pattern = "err"   -> LineErrB
          [] pattern = "okErr" -> IF i % 2 = 1 THEN LineOkA ELSE LineErrB
          [] pattern = "errOk" -> IF i % 2 = 1 THEN LineErrB ELSE LineOkA]

\* the empty file, a header followed by up to MaxLines well-formed rows, and
\* the sample files
Files ==
    {<<>>} \cup {<<HeaderLine>> \o RowsOf(pattern, n) :
                    pattern \in {"ok", "err", "okErr", "errOk"}, n \in 0 .. MaxLines}
           \cup SampleFiles

\* the empty file, and every first line followed by up to MaxLines lines of
\* any kind
FilesOfAnyLines ==
    {<<>>} \cup {<<h>> \o rows : h \in {HeaderLine, LineErrB},
                                rows \in SeqsUpTo(AllLines, MaxLines)}

(***************************************************************************)
(* printTopIPs.                                                            *)
(***************************************************************************)
\* the n of main's call
TopN == 5

\* the orders in which a range over the map can visit its keys: any
RangeOrders(requestsByIP) ==
    {order \in [1 .. Cardinality(DOMAIN requestsByIP) -> DOMAIN requestsByIP] :
        \A i, j \in DOMAIN order : i # j => order[i] # order[j]}

\* the slice collected from the map in the order of the range
CollectIPCounts(requestsByIP, order) ==
    [i \in DOMAIN order |-> [ip |-> order[i], count |-> requestsByIP[order[i]]]]

\* SortStep with the comparison turned round
SortStepOnLess(ipCounts, i, j) ==
    IF ipCounts[j].count < ipCounts[i].count
    THEN [ipCounts EXCEPT ![i] = ipCounts[j], ![j] = ipCounts[i]]
    ELSE ipCounts

\* the body of the inner loop: elements i and j are exchanged when the later
\* one has the larger count
SortStep(ipCounts, i, j) ==
    IF ipCounts[j].count > ipCounts[i].count
    THEN [ipCounts EXCEPT ![i] = ipCounts[j], ![j] = ipCounts[i]]
    ELSE ipCounts

\* the two loops, from the iteration (i, j) on; indices from 1
RECURSIVE SortLoops(_, _, _)
SortLoops(ipCounts, i, j) ==
    IF i > Len(ipCounts) THEN ipCounts
    ELSE IF j > Len(ipCounts) THEN SortLoops(ipCounts, i + 1, i + 2)
    ELSE SortLoops(SortStep(ipCounts, i, j), i, j + 1)

\* what printTopIPs has printed before it is called
NothingPrinted == [header |-> <<>>, rows |-> <<>>]

\* what printTopIPs prints: the header line with limit, then the first limit
\* elements of the sorted slice
printTopIPs(requestsByIP, n, order) ==
    LET ipCounts == SortLoops(CollectIPCounts(requestsByIP, order), 1, 2)
        limit    == IF Len(ipCounts) < n THEN Len(ipCounts) ELSE n
    IN  [header |-> <<limit>>, rows |-> SubSeq(ipCounts, 1, limit)]

(***************************************************************************)
(* State.                                                                  *)
(***************************************************************************)
VARIABLES
    \* inputs: the file's lines, whether os.Open succeeds, numWorkers, bufferSize
    file, canOpen, numWorkers, bufferSize,
    \* the arguments of a call of printTopIPs on its own
    topMap, topN,
    \* ctx: TRUE once cancel has been called
    cancelled,
    \* main: position, the join barrier's counter, the two result variables,
    \* what printTopIPs printed
    mainPc, mainWg, stats, filteredStats, topOut,
    \* readLogs' goroutine: position, lines scanned, lineNumber, the entry it
    \* is sending, the file handle, whether its out channel is closed
    readerPc, scanned, lineNumber, logEntry, fileState, logChanClosed,
    \* processLogs: each worker's position and entry, wg's counter, whether
    \* the out channel is closed
    workerPc, workerEntry, poolWg, processedClosed,
    \* tee's goroutine: position, the value v, the two buffered channels
    teePc, teeV, out1, out2, out1Closed, out2Closed,
    \* filterLogs' goroutine: position, the entry it is sending, its out channel
    filterPc, filterEntry, filterOutClosed,
    \* calculateStats, one call per branch: position, stats, totalRespTime
    calc,
    \* history: what crossed each channel, in order; the entries the workers
    \* gave up; how many entries the reader had sent when cancel was called
    taken, forwarded, sent1, sent2, filterTaken, filterSent, dropped,
    takenAtCancel

inputVars  == <<file, canOpen, numWorkers, bufferSize, topMap, topN>>
mainVars   == <<mainPc, mainWg, stats, filteredStats, topOut>>
readerVars == <<readerPc, scanned, lineNumber, logEntry, fileState, logChanClosed>>
poolVars   == <<workerPc, workerEntry, poolWg, processedClosed>>
teeVars    == <<teePc, teeV, out1, out2, out1Closed, out2Closed>>
filterVars == <<filterPc, filterEntry, filterOutClosed>>
histVars   == <<taken, forwarded, sent1, sent2, filterTaken, filterSent, dropped,
                takenAtCancel>>

vars == <<inputVars, cancelled, mainVars, readerVars, poolVars, teeVars,
          filterVars, calc, histVars>>

Workers == 1 .. numWorkers

\* the two calculateStats calls of main, named by the variable they assign
Branches == {"stats", "filteredStats"}

EmptyMap == [ip \in {} |-> 0]

\* the zero value of Statistics
ZeroStatistics ==
    [TotalRequests |-> 0, ErrorCount |-> 0, RequestsByIP |-> EmptyMap,
     AverageRespTime |-> [num |-> 0, den |-> 1]]

\* the state at the start of main, the inputs apart
InitState ==
    /\ cancelled = FALSE
    /\ mainPc = "readLogs"
    /\ mainWg = 0
    /\ stats = ZeroStatistics
    /\ filteredStats = ZeroStatistics
    /\ topOut = NothingPrinted
    /\ readerPc = "idle"
    /\ scanned = 0
    /\ lineNumber = 0
    /\ logEntry = NoEntry
    /\ fileState = "unopened"
    /\ logChanClosed = FALSE
    /\ workerPc = [w \in Workers |-> "idle"]
    /\ workerEntry = [w \in Workers |-> NoEntry]
    /\ poolWg = 0
    /\ processedClosed = FALSE
    /\ teePc = "idle"
    /\ teeV = NoEntry
    /\ out1 = <<>>
    /\ out2 = <<>>
    /\ out1Closed = FALSE
    /\ out2Closed = FALSE
    /\ filterPc = "idle"
    /\ filterEntry = NoEntry
    /\ filterOutClosed = FALSE
    /\ calc = [b \in Branches |->
                 [pc |-> "idle", stats |-> ZeroStatistics, totalRespTime |-> 0]]
    /\ taken = <<>>
    /\ forwarded = <<>>
    /\ sent1 = <<>>
    /\ sent2 = <<>>
    /\ filterTaken = <<>>
    /\ filterSent = <<>>
    /\ dropped = <<>>
    /\ takenAtCancel = -1

Init ==
    /\ file \in Files
    /\ canOpen \in BOOLEAN
    /\ numWorkers \in 1 .. MaxWorkers
    /\ bufferSize \in 1 .. MaxBuf
    /\ topMap = EmptyMap
    /\ topN = TopN
    /\ InitState

(***************************************************************************)
(* main.                                                                   *)
(***************************************************************************)
\* MainReadLogs with the error of os.Open not looked at
MainReadLogsIgnoringError ==
    /\ mainPc = "readLogs"
    /\ mainPc' = "pipeline"
    /\ IF canOpen
       THEN /\ fileState' = "open"
            /\ readerPc' = "header"
       ELSE UNCHANGED <<fileState, readerPc>>
    /\ UNCHANGED <<inputVars, cancelled, mainWg, stats, filteredStats, topOut,
                   scanned, lineNumber, logEntry, logChanClosed, poolVars,
                   teeVars, filterVars, calc, histVars>>

\* readLogs up to its return: os.Open fails and main ends in log.Fatalf, or
\* the file is open and the read goroutine is started
MainReadLogs ==
    /\ mainPc = "readLogs"
    /\ IF canOpen
       THEN /\ mainPc' = "pipeline"
            /\ fileState' = "open"
            /\ readerPc' = "header"
       ELSE /\ mainPc' = "fatal"
            /\ UNCHANGED <<fileState, readerPc>>
    /\ UNCHANGED <<inputVars, cancelled, mainWg, stats, filteredStats, topOut,
                   scanned, lineNumber, logEntry, logChanClosed, poolVars,
                   teeVars, filterVars, calc, histVars>>

\* processLogs, tee, wg.Add(2) and the two go statements: the workers, the
\* tee loop, the filter loop and the two calculateStats calls start
MainStartPipeline ==
    /\ mainPc = "pipeline"
    /\ mainPc' = "wait"
    /\ poolWg' = numWorkers
    /\ workerPc' = [w \in Workers |-> "recv"]
    /\ teePc' = "recv"
    /\ mainWg' = 2
    /\ filterPc' = "recv"
    /\ calc' = [b \in Branches |-> [calc[b] EXCEPT !.pc = "loop"]]
    /\ UNCHANGED <<inputVars, cancelled, stats, filteredStats, topOut, readerVars,
                   workerEntry, processedClosed, teeV, out1, out2, out1Closed,
                   out2Closed, filterEntry, filterOutClosed, histVars>>

\* MainWait after wg.Add(1): one Done is enough
MainWaitForOne ==
    /\ mainPc = "wait"
    /\ mainWg <= 1
    /\ mainPc' = "print"
    /\ UNCHANGED <<inputVars, cancelled, mainWg, stats, filteredStats, topOut,
                   readerVars, poolVars, teeVars, filterVars, calc, histVars>>

\* wg.Wait() returns once both calculateStats goroutines have called Done
MainWait ==
    /\ mainPc = "wait"
    /\ mainWg = 0
    /\ mainPc' = "print"
    /\ UNCHANGED <<inputVars, cancelled, mainWg, stats, filteredStats, topOut,
                   readerVars, poolVars, teeVars, filterVars, calc, histVars>>

\* the results are printed, printTopIPs(stats.RequestsByIP, 5) among them;
\* main returns and its deferred cancel() runs
MainReturn ==
    /\ mainPc = "print"
    /\ mainPc' = "done"
    /\ \E order \in RangeOrders(stats.RequestsByIP) :
           topOut' = printTopIPs(stats.RequestsByIP, TopN, order)
    /\ cancelled' = TRUE
    /\ takenAtCancel' = IF cancelled THEN takenAtCancel ELSE Len(taken)
    /\ UNCHANGED <<inputVars, mainWg, stats, filteredStats, readerVars, poolVars,
                   teeVars, filterVars, calc, taken, forwarded, sent1, sent2,
                   filterTaken, filterSent, dropped>>

\* the holder of the cancel function calls it while main is running
Cancel ==
    /\ mainPc \in {"pipeline", "wait"}
    /\ ~cancelled
    /\ cancelled' = TRUE
    /\ takenAtCancel' = Len(taken)
    /\ UNCHANGED <<inputVars, mainVars, readerVars, poolVars, teeVars,
                   filterVars, calc, taken, forwarded, sent1, sent2,
                   filterTaken, filterSent, dropped>>

(***************************************************************************)
(* readLogs' goroutine.                                                    *)
(***************************************************************************)
\* the first scanner.Scan(): the header is skipped; an empty file ends the
\* goroutine
ReaderHeader ==
    /\ readerPc = "header"
    /\ IF Len(file) = 0
       THEN /\ readerPc' = "closeFile"
            /\ UNCHANGED scanned
       ELSE /\ readerPc' = "scan"
            /\ scanned' = 1
    /\ UNCHANGED <<inputVars, cancelled, mainVars, lineNumber, logEntry,
                   fileState, logChanClosed, poolVars, teeVars, filterVars,
                   calc, histVars>>

\* ReaderLoop without the select on ctx.Done()
ReaderLoopIgnoringCancel ==
    /\ readerPc = "scan"
    /\ IF scanned >= Len(file)
       THEN /\ readerPc' = "closeFile"
            /\ UNCHANGED <<scanned, lineNumber, logEntry>>
       ELSE /\ scanned' = scanned + 1
            /\ lineNumber' = lineNumber + 1
            /\ LET parsed == parseLogLine(file[scanned + 1]) IN
               IF parsed.ok
               THEN /\ logEntry' = parsed.entry
                    /\ readerPc' = "send"
               ELSE /\ readerPc' = "scan"
                    /\ UNCHANGED logEntry
    /\ UNCHANGED <<inputVars, cancelled, mainVars, fileState, logChanClosed,
                   poolVars, teeVars, filterVars, calc, histVars>>

\* ReaderLoop whose cancelled return runs close(out) alone
ReaderLoopLeavingFileOpen ==
    /\ readerPc = "scan"
    /\ IF scanned >= Len(file)
       THEN /\ readerPc' = "closeFile"
            /\ UNCHANGED <<scanned, lineNumber, logEntry>>
       ELSE /\ scanned' = scanned + 1
            /\ lineNumber' = lineNumber + 1
            /\ IF cancelled
               THEN /\ readerPc' = "closeOut"
                    /\ UNCHANGED logEntry
               ELSE LET parsed == parseLogLine(file[scanned + 1]) IN
                    IF parsed.ok
                    THEN /\ logEntry' = parsed.entry
                         /\ readerPc' = "send"
                    ELSE /\ readerPc' = "scan"
                         /\ UNCHANGED logEntry
    /\ UNCHANGED <<inputVars, cancelled, mainVars, fileState, logChanClosed,
                   poolVars, teeVars, filterVars, calc, histVars>>

\* ReaderLoop with a return in place of the continue: a line that does not
\* parse ends the goroutine
ReaderLoopStoppingOnError ==
    /\ readerPc = "scan"
    /\ IF scanned >= Len(file)
       THEN /\ readerPc' = "closeFile"
            /\ UNCHANGED <<scanned, lineNumber, logEntry>>
       ELSE /\ scanned' = scanned + 1
            /\ lineNumber' = lineNumber + 1
            /\ IF cancelled
               THEN /\ readerPc' = "closeFile"
                    /\ UNCHANGED logEntry
               ELSE LET parsed == parseLogLine(file[scanned + 1]) IN
                    IF parsed.ok
                    THEN /\ logEntry' = parsed.entry
                         /\ readerPc' = "send"
                    ELSE /\ readerPc' = "closeFile"
                         /\ UNCHANGED logEntry
    /\ UNCHANGED <<inputVars, cancelled, mainVars, fileState, logChanClosed,
                   poolVars, teeVars, filterVars, calc, histVars>>

\* one turn of the scan loop up to its send: the loop ends with the file; a
\* cancelled context ends the goroutine; a line that does not parse is
\* skipped; a parsed entry is ready to be sent
ReaderLoop ==
    /\ readerPc = "scan"
    /\ IF scanned >= Len(file)
       THEN /\ readerPc' = "closeFile"
            /\ UNCHANGED <<scanned, lineNumber, logEntry>>
       ELSE /\ scanned' = scanned + 1
            /\ lineNumber' = lineNumber + 1
            /\ IF cancelled
               THEN /\ readerPc' = "closeFile"
                    /\ UNCHANGED logEntry
               ELSE LET parsed == parseLogLine(file[scanned + 1]) IN
                    IF parsed.ok
                    THEN /\ logEntry' = parsed.entry
                         /\ readerPc' = "send"
                    ELSE /\ readerPc' = "scan"
                         /\ UNCHANGED logEntry
    /\ UNCHANGED <<inputVars, cancelled, mainVars, fileState, logChanClosed,
                   poolVars, teeVars, filterVars, calc, histVars>>

\* defer file.Close()
ReaderCloseFile ==
    /\ readerPc = "closeFile"
    /\ fileState' = "closed"
    /\ readerPc' = "closeOut"
    /\ UNCHANGED <<inputVars, cancelled, mainVars, scanned, lineNumber, logEntry,
                   logChanClosed, poolVars, teeVars, filterVars, calc, histVars>>

\* defer close(out)
ReaderCloseOut ==
    /\ readerPc = "closeOut"
    /\ logChanClosed' = TRUE
    /\ readerPc' = "done"
    /\ UNCHANGED <<inputVars, cancelled, mainVars, scanned, lineNumber, logEntry,
                   fileState, poolVars, teeVars, filterVars, calc, histVars>>

(***************************************************************************)
(* processLogs: the workers and the goroutine that closes out.             *)
(***************************************************************************)
\* for logEntry := range input: worker w receives what the reader sends
WorkerReceive(w) ==
    /\ workerPc[w] = "recv"
    /\ readerPc = "send"
    /\ workerEntry' = [workerEntry EXCEPT ![w] = logEntry]
    /\ workerPc' = [workerPc EXCEPT ![w] = "select"]
    /\ readerPc' = "scan"
    /\ taken' = Append(taken, logEntry)
    /\ UNCHANGED <<inputVars, cancelled, mainVars, scanned, lineNumber, logEntry,
                   fileState, logChanClosed, poolWg, processedClosed, teeVars,
                   filterVars, calc, forwarded, sent1, sent2, filterTaken,
                   filterSent, dropped, takenAtCancel>>

\* the range loop ends on the closed input; the deferred wg.Done() runs
WorkerInputClosed(w) ==
    /\ workerPc[w] = "recv"
    /\ logChanClosed
    /\ workerPc' = [workerPc EXCEPT ![w] = "done"]
    /\ poolWg' = poolWg - 1
    /\ UNCHANGED <<inputVars, cancelled, mainVars, readerVars, workerEntry,
                   processedClosed, teeVars, filterVars, calc, histVars>>

\* WorkerSelect with the send left out: the worker takes its next entry
WorkerSelectWithoutSend(w) ==
    /\ workerPc[w] = "select"
    /\ IF cancelled
       THEN /\ workerPc' = [workerPc EXCEPT ![w] = "done"]
            /\ poolWg' = poolWg - 1
            /\ dropped' = Append(dropped, workerEntry[w])
       ELSE /\ workerPc' = [workerPc EXCEPT ![w] = "recv"]
            /\ UNCHANGED <<poolWg, dropped>>
    /\ UNCHANGED <<inputVars, cancelled, mainVars, readerVars, workerEntry,
                   processedClosed, teeVars, filterVars, calc, taken, forwarded,
                   sent1, sent2, filterTaken, filterSent, takenAtCancel>>

\* WorkerSelect with the context never looked at: every entry goes on
WorkerSelectIgnoringCancel(w) ==
    /\ workerPc[w] = "select"
    /\ workerPc' = [workerPc EXCEPT ![w] = "send"]
    /\ UNCHANGED <<inputVars, cancelled, mainVars, readerVars, workerEntry, poolWg,
                   processedClosed, teeVars, filterVars, calc, histVars>>

\* WorkerSelect with wg.Done() left out of the cancelled return
WorkerSelectWithoutDone(w) ==
    /\ workerPc[w] = "select"
    /\ IF cancelled
       THEN /\ workerPc' = [workerPc EXCEPT ![w] = "done"]
            /\ dropped' = Append(dropped, workerEntry[w])
       ELSE /\ workerPc' = [workerPc EXCEPT ![w] = "send"]
            /\ UNCHANGED dropped
    /\ UNCHANGED <<inputVars, cancelled, mainVars, readerVars, workerEntry, poolWg,
                   processedClosed, teeVars, filterVars, calc, taken, forwarded,
                   sent1, sent2, filterTaken, filterSent, takenAtCancel>>

\* select: a cancelled context makes the worker return (wg.Done() runs), the
\* entry it holds is not forwarded; otherwise the worker goes on to its send
WorkerSelect(w) ==
    /\ workerPc[w] = "select"
    /\ IF cancelled
       THEN /\ workerPc' = [workerPc EXCEPT ![w] = "done"]
            /\ poolWg' = poolWg - 1
            /\ dropped' = Append(dropped, workerEntry[w])
       ELSE /\ workerPc' = [workerPc EXCEPT ![w] = "send"]
            /\ UNCHANGED <<poolWg, dropped>>
    /\ UNCHANGED <<inputVars, cancelled, mainVars, readerVars, workerEntry,
                   processedClosed, teeVars, filterVars, calc, taken, forwarded,
                   sent1, sent2, filterTaken, filterSent, takenAtCancel>>

\* PoolClose not waiting for every worker: one Done is enough
PoolCloseAfterFirstDone ==
    /\ mainPc \notin {"readLogs", "pipeline", "fatal"}
    /\ ~processedClosed
    /\ poolWg < numWorkers
    /\ processedClosed' = TRUE
    /\ UNCHANGED <<inputVars, cancelled, mainVars, readerVars, workerPc,
                   workerEntry, poolWg, teeVars, filterVars, calc, histVars>>

\* wg.Wait() returns when every worker has called Done; close(out)
PoolClose ==
    /\ mainPc \notin {"readLogs", "pipeline", "fatal"}
    /\ ~processedClosed
    /\ poolWg = 0
    /\ processedClosed' = TRUE
    /\ UNCHANGED <<inputVars, cancelled, mainVars, readerVars, workerPc,
                   workerEntry, poolWg, teeVars, filterVars, calc, histVars>>

(***************************************************************************)
(* tee's goroutine.                                                        *)
(***************************************************************************)
\* for v := range in: tee receives what worker w sends
TeeReceive(w) ==
    /\ teePc = "recv"
    /\ workerPc[w] = "send"
    /\ teeV' = workerEntry[w]
    /\ teePc' = "send1"
    /\ workerPc' = [workerPc EXCEPT ![w] = "recv"]
    /\ forwarded' = Append(forwarded, workerEntry[w])
    /\ UNCHANGED <<inputVars, cancelled, mainVars, readerVars, workerEntry, poolWg,
                   processedClosed, out1, out2, out1Closed, out2Closed,
                   filterVars, calc, taken, sent1, sent2, filterTaken, filterSent,
                   dropped, takenAtCancel>>

\* TeeInputClosed taking a pause of the workers for the end of the input
TeeInputClosedWhenIdle ==
    /\ teePc = "recv"
    /\ forwarded # <<>>
    /\ \A w \in Workers : workerPc[w] # "send"
    /\ teePc' = "close2"
    /\ UNCHANGED <<inputVars, cancelled, mainVars, readerVars, poolVars, teeV,
                   out1, out2, out1Closed, out2Closed, filterVars, calc, histVars>>

\* the range loop ends on the closed input
TeeInputClosed ==
    /\ teePc = "recv"
    /\ processedClosed
    /\ teePc' = "close2"
    /\ UNCHANGED <<inputVars, cancelled, mainVars, readerVars, poolVars, teeV,
                   out1, out2, out1Closed, out2Closed, filterVars, calc, histVars>>

\* TeeSend1 on a buffer without a capacity
TeeSend1Unbounded ==
    /\ teePc = "send1"
    /\ out1' = Append(out1, teeV)
    /\ sent1' = Append(sent1, teeV)
    /\ teePc' = "send2"
    /\ UNCHANGED <<inputVars, cancelled, mainVars, readerVars, poolVars, teeV,
                   out2, out1Closed, out2Closed, filterVars, calc, taken,
                   forwarded, sent2, filterTaken, filterSent, dropped, takenAtCancel>>

\* out1 <- v, when the buffer has room
TeeSend1 ==
    /\ teePc = "send1"
    /\ Len(out1) < bufferSize
    /\ out1' = Append(out1, teeV)
    /\ sent1' = Append(sent1, teeV)
    /\ teePc' = "send2"
    /\ UNCHANGED <<inputVars, cancelled, mainVars, readerVars, poolVars, teeV,
                   out2, out1Closed, out2Closed, filterVars, calc, taken,
                   forwarded, sent2, filterTaken, filterSent, dropped, takenAtCancel>>

\* TeeSend2 as a send that does not block: v is lost when the buffer is full
TeeSend2OrSkip ==
    /\ teePc = "send2"
    /\ IF Len(out2) < bufferSize
       THEN /\ out2' = Append(out2, teeV)
            /\ sent2' = Append(sent2, teeV)
       ELSE UNCHANGED <<out2, sent2>>
    /\ teePc' = "recv"
    /\ UNCHANGED <<inputVars, cancelled, mainVars, readerVars, poolVars, teeV,
                   out1, out1Closed, out2Closed, filterVars, calc, taken,
                   forwarded, sent1, filterTaken, filterSent, dropped, takenAtCancel>>

\* out2 <- v, when the buffer has room
TeeSend2 ==
    /\ teePc = "send2"
    /\ Len(out2) < bufferSize
    /\ out2' = Append(out2, teeV)
    /\ sent2' = Append(sent2, teeV)
    /\ teePc' = "recv"
    /\ UNCHANGED <<inputVars, cancelled, mainVars, readerVars, poolVars, teeV,
                   out1, out1Closed, out2Closed, filterVars, calc, taken,
                   forwarded, sent1, filterTaken, filterSent, dropped, takenAtCancel>>

\* defer close(out2): the deferred calls run last-in first-out
TeeClose2 ==
    /\ teePc = "close2"
    /\ out2Closed' = TRUE
    /\ teePc' = "close1"
    /\ UNCHANGED <<inputVars, cancelled, mainVars, readerVars, poolVars, teeV,
                   out1, out2, out1Closed, filterVars, calc, histVars>>

\* TeeClose1 that leaves tee at its close: out1 is closed again
TeeClose1Again ==
    /\ teePc = "close1"
    /\ out1Closed' = TRUE
    /\ teePc' = IF out1Closed THEN "done" ELSE "close1"
    /\ UNCHANGED <<inputVars, cancelled, mainVars, readerVars, poolVars, teeV,
                   out1, out2, out2Closed, filterVars, calc, histVars>>

\* defer close(out1)
TeeClose1 ==
    /\ teePc = "close1"
    /\ out1Closed' = TRUE
    /\ teePc' = "done"
    /\ UNCHANGED <<inputVars, cancelled, mainVars, readerVars, poolVars, teeV,
                   out1, out2, out2Closed, filterVars, calc, histVars>>

(***************************************************************************)
(* filterLogs' goroutine.                                                  *)
(***************************************************************************)
\* FilterReceive keeping only the entries above minStatus
FilterReceiveStrictlyAbove ==
    /\ filterPc = "recv"
    /\ out2 # <<>>
    /\ out2' = Tail(out2)
    /\ filterTaken' = Append(filterTaken, Head(out2))
    /\ IF Head(out2).StatusCode > MinStatus
       THEN /\ filterEntry' = Head(out2)
            /\ filterPc' = "send"
       ELSE UNCHANGED <<filterEntry, filterPc>>
    /\ UNCHANGED <<inputVars, cancelled, mainVars, readerVars, poolVars, teePc,
                   teeV, out1, out1Closed, out2Closed, filterOutClosed, calc,
                   taken, forwarded, sent1, sent2, filterSent, dropped, takenAtCancel>>

\* for logEntry := range input, on a buffered entry: an entry at or above
\* minStatus is ready to be sent, any other is passed over
FilterReceive ==
    /\ filterPc = "recv"
    /\ out2 # <<>>
    /\ out2' = Tail(out2)
    /\ filterTaken' = Append(filterTaken, Head(out2))
    /\ IF Head(out2).StatusCode >= MinStatus
       THEN /\ filterEntry' = Head(out2)
            /\ filterPc' = "send"
       ELSE UNCHANGED <<filterEntry, filterPc>>
    /\ UNCHANGED <<inputVars, cancelled, mainVars, readerVars, poolVars, teePc,
                   teeV, out1, out1Closed, out2Closed, filterOutClosed, calc,
                   taken, forwarded, sent1, sent2, filterSent, dropped, takenAtCancel>>

\* FilterInputClosed taking an empty buffer for a closed input
FilterInputClosedOnEmpty ==
    /\ filterPc = "recv"
    /\ out2 = <<>>
    /\ filterOutClosed' = TRUE
    /\ filterPc' = "done"
    /\ UNCHANGED <<inputVars, cancelled, mainVars, readerVars, poolVars, teeVars,
                   filterEntry, calc, histVars>>

\* the range loop ends on the closed and drained input; defer close(out)
FilterInputClosed ==
    /\ filterPc = "recv"
    /\ out2 = <<>>
    /\ out2Closed
    /\ filterOutClosed' = TRUE
    /\ filterPc' = "done"
    /\ UNCHANGED <<inputVars, cancelled, mainVars, readerVars, poolVars, teeVars,
                   filterEntry, calc, histVars>>

(***************************************************************************)
(* calculateStats.                                                         *)
(***************************************************************************)
\* CalcAdd with an assignment in place of the increment of the IP's count
CalcAddOverwritingIP(c, e) ==
    [c EXCEPT
       !.stats.TotalRequests = @ + 1,
       !.stats.ErrorCount = IF e.StatusCode >= ErrorStatus THEN @ + 1 ELSE @,
       !.stats.RequestsByIP =
           IF e.IP \in DOMAIN @ THEN [@ EXCEPT ![e.IP] = 1]
           ELSE @ @@ (e.IP :> 1),
       !.totalRespTime = @ + e.ResponseTime]

\* CalcAdd counting as errors only the codes above the threshold
CalcAddStrictlyAbove(c, e) ==
    [c EXCEPT
       !.stats.TotalRequests = @ + 1,
       !.stats.ErrorCount = IF e.StatusCode > ErrorStatus THEN @ + 1 ELSE @,
       !.stats.RequestsByIP =
           IF e.IP \in DOMAIN @ THEN [@ EXCEPT ![e.IP] = @ + 1]
           ELSE @ @@ (e.IP :> 1),
       !.totalRespTime = @ + e.ResponseTime]

\* the body of the range loop for entry e, on the call's state c
CalcAdd(c, e) ==
    [c EXCEPT
       !.stats.TotalRequests = @ + 1,
       !.stats.ErrorCount = IF e.StatusCode >= ErrorStatus THEN @ + 1 ELSE @,
       !.stats.RequestsByIP =
           IF e.IP \in DOMAIN @ THEN [@ EXCEPT ![e.IP] = @ + 1]
           ELSE @ @@ (e.IP :> 1),
       !.totalRespTime = @ + e.ResponseTime]

\* CalcResult without the test for TotalRequests > 0
CalcResultUnguarded(c) ==
    [c.stats EXCEPT !.AverageRespTime =
        [num |-> c.totalRespTime, den |-> c.stats.TotalRequests]]

\* after the loop: the average is set when there was a request; the quotient
\* of the two float64 conversions is kept as the exact fraction
CalcResult(c) ==
    IF c.stats.TotalRequests > 0
    THEN [c.stats EXCEPT !.AverageRespTime =
              [num |-> c.totalRespTime, den |-> c.stats.TotalRequests]]
    ELSE c.stats

\* the unfiltered branch receives a buffered entry of out1
CalcReceiveUnfiltered ==
    /\ calc["stats"].pc = "loop"
    /\ out1 # <<>>
    /\ out1' = Tail(out1)
    /\ calc' = [calc EXCEPT !["stats"] = CalcAdd(@, Head(out1))]
    /\ UNCHANGED <<inputVars, cancelled, mainVars, readerVars, poolVars, teePc,
                   teeV, out2, out1Closed, out2Closed, filterVars, histVars>>

\* the filtered branch receives what the filter sends
CalcReceiveFiltered ==
    /\ calc["filteredStats"].pc = "loop"
    /\ filterPc = "send"
    /\ filterPc' = "recv"
    /\ filterSent' = Append(filterSent, filterEntry)
    /\ calc' = [calc EXCEPT !["filteredStats"] = CalcAdd(@, filterEntry)]
    /\ UNCHANGED <<inputVars, cancelled, mainVars, readerVars, poolVars, teeVars,
                   filterEntry, filterOutClosed, taken, forwarded, sent1, sent2,
                   filterTaken, dropped, takenAtCancel>>

\* whether the input channel of branch b is closed and drained
InputDrained(b) ==
    IF b = "stats" THEN out1 = <<>> /\ out1Closed ELSE filterOutClosed

\* the range loop ends; calculateStats returns and the goroutine of main
\* assigns the result to its variable
CalcReturn(b) ==
    /\ calc[b].pc = "loop"
    /\ InputDrained(b)
    /\ calc' = [calc EXCEPT ![b].pc = "wgDone", ![b].stats = CalcResult(calc[b])]
    /\ IF b = "stats"
       THEN stats' = CalcResult(calc[b]) /\ UNCHANGED filteredStats
       ELSE filteredStats' = CalcResult(calc[b]) /\ UNCHANGED stats
    /\ UNCHANGED <<inputVars, cancelled, mainPc, mainWg, topOut, readerVars,
                   poolVars, teeVars, filterVars, histVars>>

\* defer wg.Done() of the goroutine of main
CalcWgDone(b) ==
    /\ calc[b].pc = "wgDone"
    /\ calc' = [calc EXCEPT ![b].pc = "done"]
    /\ mainWg' = mainWg - 1
    /\ UNCHANGED <<inputVars, cancelled, mainPc, stats, filteredStats, topOut,
                   readerVars, poolVars, teeVars, filterVars, histVars>>

(***************************************************************************)
(* Specification.                                                          *)
(***************************************************************************)
Next ==
    \/ MainReadLogs
    \/ MainStartPipeline
    \/ MainWait
    \/ MainReturn
    \/ Cancel
    \/ ReaderHeader
    \/ ReaderLoop
    \/ ReaderCloseFile
    \/ ReaderCloseOut
    \/ \E w \in Workers : WorkerReceive(w)
    \/ \E w \in Workers : WorkerInputClosed(w)
    \/ \E w \in Workers : WorkerSelect(w)
    \/ PoolClose
    \/ \E w \in Workers : TeeReceive(w)
    \/ TeeInputClosed
    \/ TeeSend1
    \/ TeeSend2
    \/ TeeClose2
    \/ TeeClose1
    \/ FilterReceive
    \/ FilterInputClosed
    \/ CalcReceiveUnfiltered
    \/ CalcReceiveFiltered
    \/ \E b \in Branches : CalcReturn(b)
    \/ \E b \in Branches : CalcWgDone(b)

Spec == Init /\ [][Next]_vars

(***************************************************************************)
(* The run of main on files with lines of every kind, with no cancellation *)
(* before main returns.                                                    *)
(***************************************************************************)
InitRead ==
    /\ file \in FilesOfAnyLines
    /\ canOpen = TRUE
    /\ numWorkers \in 1 .. MaxWorkers
    /\ bufferSize = 1
    /\ topMap = EmptyMap
    /\ topN = TopN
    /\ InitState

NextRead ==
    \/ MainReadLogs
    \/ MainStartPipeline
    \/ MainWait
    \/ MainReturn
    \/ ReaderHeader
    \/ ReaderLoop
    \/ ReaderCloseFile
    \/ ReaderCloseOut
    \/ \E w \in Workers : WorkerReceive(w)
    \/ \E w \in Workers : WorkerInputClosed(w)
    \/ \E w \in Workers : WorkerSelect(w)
    \/ PoolClose
    \/ \E w \in Workers : TeeReceive(w)
    \/ TeeInputClosed
    \/ TeeSend1
    \/ TeeSend2
    \/ TeeClose2
    \/ TeeClose1
    \/ FilterReceive
    \/ FilterInputClosed
    \/ CalcReceiveUnfiltered
    \/ CalcReceiveFiltered
    \/ \E b \in Branches : CalcReturn(b)
    \/ \E b \in Branches : CalcWgDone(b)

ReadSpec == InitRead /\ [][NextRead]_vars

(***************************************************************************)
(* The fair runs: the scheduler lets every goroutine that can take a step  *)
(* take it; nothing obliges the holder of the cancel function to call it.  *)
(***************************************************************************)
MainStep == MainReadLogs \/ MainStartPipeline \/ MainWait \/ MainReturn

ReaderStep == ReaderHeader \/ ReaderLoop \/ ReaderCloseFile \/ ReaderCloseOut

PoolStep ==
    \/ \E w \in Workers : WorkerReceive(w) \/ WorkerInputClosed(w) \/ WorkerSelect(w)
    \/ PoolClose

TeeStep ==
    \/ \E w \in Workers : TeeReceive(w)
    \/ TeeInputClosed \/ TeeSend1 \/ TeeSend2 \/ TeeClose2 \/ TeeClose1

FilterStep == FilterReceive \/ FilterInputClosed

CalcStep ==
    \/ CalcReceiveUnfiltered \/ CalcReceiveFiltered
    \/ \E b \in Branches : CalcReturn(b) \/ CalcWgDone(b)

Fairness ==
    /\ WF_vars(MainStep)
    /\ WF_vars(ReaderStep)
    /\ WF_vars(PoolStep)
    /\ WF_vars(TeeStep)
    /\ WF_vars(FilterStep)
    /\ WF_vars(CalcStep)

FairSpec == Init /\ [][Next]_vars /\ Fairness

(***************************************************************************)
(* What the file holds.                                                    *)
(***************************************************************************)
\* the positions of the commas of a line
Commas(line) == {i \in DOMAIN line : line[i] = ","}

\* the text of a line after its k-th comma, up to the next comma or the end
FieldAfter(line, k) ==
    LET from == CHOOSE i \in Commas(line) : Cardinality({j \in Commas(line) : j < i}) = k - 1
        upTo == IF \E j \in Commas(line) : j > from
                THEN (CHOOSE j \in Commas(line) : j > from /\ \A l \in Commas(line) : l > from => l >= j) - 1
                ELSE Len(line)
    IN  SubSeq(line, from + 1, upTo)

IsInteger(text) ==
    LET ds == IF text # <<>> /\ text[1] \in {"+", "-"} THEN Tail(text) ELSE text
    IN  ds # <<>> /\ Range(ds) \subseteq Digits

\* six comma-separated fields, the last two integers
WellFormed(line) ==
    /\ Cardinality(Commas(line)) = 5
    /\ IsInteger(FieldAfter(line, 4))
    /\ IsInteger(FieldAfter(line, 5))

\* every line a file of the model can hold
Lines == AllLines \cup {HeaderLine}

\* for every line: whether it is well-formed, and the entry it parses to
WellFormedLine == [line \in Lines |-> WellFormed(line)]
EntryOfLine == [line \in Lines |-> parseLogLine(line).entry]

\* the positions of the well-formed data rows of the file
WellFormedRows == {i \in 2 .. Len(file) : WellFormedLine[file[i]]}

\* the entries of the well-formed data rows, in file order
RECURSIVE EntriesFrom(_)
EntriesFrom(i) ==
    IF i > Len(file) THEN <<>>
    ELSE (IF WellFormedLine[file[i]] THEN <<EntryOfLine[file[i]]>> ELSE <<>>)
         \o EntriesFrom(i + 1)

FileEntries == EntriesFrom(2)

(***************************************************************************)
(* Multisets.                                                              *)
(***************************************************************************)
CountIn(bag, e) == IF e \in DOMAIN bag THEN bag[e] ELSE 0

BagPlus(a, b) == [e \in DOMAIN a \cup DOMAIN b |-> CountIn(a, e) + CountIn(b, e)]

(***************************************************************************)
(* C1.  processLogs loses and duplicates nothing: when the pool's output   *)
(* channel is closed, the multiset of entries sent on it equals the        *)
(* multiset of entries the workers received from the input.                *)
(***************************************************************************)
\* C1 as stated: in every run, once the pool's output channel is closed, the
\* multiset sent on it equals the multiset received from the input
C1_NothingLostInEveryRun ==
    processedClosed => BagOf(forwarded) = BagOf(taken)

\* C1 as amended: when the pool's output channel is closed, every entry the
\* workers received was either sent on the output exactly once or given up by
\* a worker that observed the cancellation; a worker gives up at most one
\* entry; in a run with no cancellation so far nothing was given up and the
\* two multisets are equal.
C1_NothingLostButOnCancel ==
    processedClosed =>
        /\ BagOf(taken) = BagPlus(BagOf(forwarded), BagOf(dropped))
        /\ Len(dropped) <= numWorkers
        /\ ~cancelled => dropped = <<>> /\ BagOf(forwarded) = BagOf(taken)

\* two workers: one entry went through, one was given up on cancellation
C1_Witness ==
    /\ processedClosed
    /\ numWorkers = 2
    /\ forwarded # <<>>
    /\ dropped # <<>>

(***************************************************************************)
(* C2.  In every run in which the file was opened, the reader's output     *)
(* channel is eventually closed, whether the file is exhausted or the      *)
(* context is cancelled during the scan loop.                              *)
(***************************************************************************)
\* C2: once the read goroutine runs, its output channel is eventually closed
C2_ReaderOutputEventuallyClosed ==
    (readerPc # "idle") ~> logChanClosed

\* the entry of data row i, the IPs of the rows, their response times
RowEntry(i) == EntryOfLine[file[i]]

RowIPs == {RowEntry(i).IP : i \in WellFormedRows}

RowResponseTimes == [i \in WellFormedRows |-> RowEntry(i).ResponseTime]

(***************************************************************************)
(* C3.  With no cancellation the Statistics of the unfiltered branch are   *)
(* the fold over the well-formed data rows of the file, whatever the order *)
(* in which the workers forward: TotalRequests is their number, ErrorCount *)
(* the number of those with a status of 400 or more, RequestsByIP the rows *)
(* per IP, and the response-time total their sum.                          *)
(***************************************************************************)
\* C3: when main is past wg.Wait and cancel was not called, stats holds the
\* counts and the sum of the well-formed rows of the file
C3_StatsAreTheFoldOfTheRows ==
    (mainPc = "print" /\ ~cancelled) =>
        /\ stats.TotalRequests = Cardinality(WellFormedRows)
        /\ stats.ErrorCount =
               Cardinality({i \in WellFormedRows : RowEntry(i).StatusCode >= 400})
        /\ stats.RequestsByIP =
               [ip \in RowIPs |-> Cardinality({i \in WellFormedRows : RowEntry(i).IP = ip})]
        /\ calc["stats"].totalRespTime = SumOver(RowResponseTimes, WellFormedRows)

\* the workers forwarded the rows in another order than the file's
C3_Witness ==
    /\ mainPc = "print"
    /\ ~cancelled
    /\ Len(forwarded) = 2
    /\ forwarded # FileEntries
    /\ stats.ErrorCount = 1

\* the row t,B,P,u,400,30 parses to its six fields, the last two as numbers
SampleRowParsed ==
    parseLogLine(LineErrB) =
        [ok |-> TRUE,
         entry |-> [Timestamp |-> <<"t">>, IP |-> <<"B">>, Method |-> <<"P">>,
                    URL |-> <<"u">>, StatusCode |-> 400, ResponseTime |-> 30]]

(***************************************************************************)
(* C4.  With no cancellation readLogs skips the first line, whatever it    *)
(* holds, and then sends, in file order, one entry for every later line    *)
(* that has six comma-separated fields of which the last two are integers; *)
(* any other line is passed over and the lines after it are still read.    *)
(* A header, one well-formed row and one row of four fields give           *)
(* TotalRequests = 1.                                                      *)
(***************************************************************************)
\* C4: what the reader has sent is a prefix of the entries of the well-formed
\* rows after the first line, and all of them once its channel is closed;
\* header, one well-formed row, one row of four fields: TotalRequests = 1
C4_ReaderSendsTheWellFormedRows ==
    /\ IsPrefix(taken, FileEntries)
    /\ logChanClosed => taken = FileEntries
    /\ SampleRowParsed
    /\ (mainPc = "print" /\ file = <<HeaderLine, LineOkA, LineShort>>) =>
           stats.TotalRequests = 1

\* a line that does not parse stands before a well-formed row, and the
\* reader has sent the whole file
C4_Witness ==
    /\ logChanClosed
    /\ taken # <<>>
    /\ \E i, j \in 2 .. Len(file) : i < j /\ ~WellFormedLine[file[i]] /\ WellFormedLine[file[j]]

(***************************************************************************)
(* C5.  tee delivers the same sequence to both outputs: once both outputs  *)
(* are closed, what was sent on output 1 and what was sent on output 2 are *)
(* each the sequence of entries read from the input, in the same order,    *)
(* for every buffer capacity.                                              *)
(***************************************************************************)
\* C5: once both outputs are closed, each was sent exactly the sequence that
\* tee read from its input
C5_TeeOutputsEqualItsInput ==
    (out1Closed /\ out2Closed) => (sent1 = forwarded /\ sent2 = forwarded)

\* the buffer of capacity 1 was too small for the two different entries
\* that went through
C5_Witness ==
    /\ out1Closed
    /\ out2Closed
    /\ bufferSize = 1
    /\ Len(forwarded) = 2
    /\ forwarded[1] # forwarded[2]

(***************************************************************************)
(* C6.  In every run, cancelled or not, once both aggregators have         *)
(* finished, ErrorCount of the unfiltered branch equals ErrorCount of the  *)
(* filtered branch.                                                        *)
(***************************************************************************)
\* C6: once main is past wg.Wait, the two ErrorCounts are equal
C6_ErrorCountsAgree ==
    (mainPc \in {"print", "done"}) => stats.ErrorCount = filteredStats.ErrorCount

\* a cancelled run that counted an error and a request that is none
C6_Witness ==
    /\ mainPc = "print"
    /\ cancelled
    /\ stats.ErrorCount >= 1
    /\ stats.TotalRequests > stats.ErrorCount

(***************************************************************************)
(* C7.  The pipeline terminates in every fair run, cancelled at any point  *)
(* or not: both calculateStats calls return, main passes wg.Wait, and the  *)
(* pool output, both tee outputs and the filter output are closed.         *)
(***************************************************************************)
\* C7: from the start of the pipeline every fair run leads to main returned,
\* both calculateStats calls done and the four channels closed
C7_PipelineTerminates ==
    (mainPc = "pipeline") ~>
        /\ mainPc = "done"
        /\ \A b \in Branches : calc[b].pc = "done"
        /\ processedClosed
        /\ out1Closed
        /\ out2Closed
        /\ filterOutClosed

\* main is past the barrier of a cancelled run whose Statistics miss rows,
\* while the reader still stands at its send
C7_Witness ==
    /\ mainPc = "print"
    /\ readerPc = "send"
    /\ stats.TotalRequests < Cardinality(WellFormedRows)
    /\ processedClosed /\ out1Closed /\ out2Closed /\ filterOutClosed

(***************************************************************************)
(* C8.  If cancel is called while a well-formed data row has not yet been  *)
(* sent by the reader, the Statistics of the unfiltered branch end with    *)
(* TotalRequests strictly below the number of well-formed data rows; in    *)
(* every run TotalRequests never exceeds that number.                      *)
(***************************************************************************)
\* C8: TotalRequests never exceeds the number of well-formed rows, and is
\* below it at the end of a run in which cancel was called before the reader
\* had sent them all
C8_CancelledRunCountsFewer ==
    /\ calc["stats"].stats.TotalRequests <= Cardinality(WellFormedRows)
    /\ stats.TotalRequests <= Cardinality(WellFormedRows)
    /\ (mainPc \in {"print", "done"}
        /\ takenAtCancel >= 0
        /\ takenAtCancel < Cardinality(WellFormedRows)) =>
           stats.TotalRequests < Cardinality(WellFormedRows)

\* cancel was called before the last row was sent, the reader sent it all
\* the same, and the count is short of the rows
C8_Witness ==
    /\ mainPc = "print"
    /\ takenAtCancel >= 0
    /\ takenAtCancel < Cardinality(WellFormedRows)
    /\ Len(taken) = Cardinality(WellFormedRows)
    /\ stats.TotalRequests >= 1

(***************************************************************************)
(* C9.  The pool's output channel is closed only after all N workers have  *)
(* returned: whenever it is closed every worker is done, and nothing is    *)
(* sent on it once it is closed.                                           *)
(***************************************************************************)
\* C9: the pool's output is closed only with every worker done and wg at 0,
\* and once closed it stays closed and receives nothing more
C9_PoolClosesAfterItsWorkers ==
    /\ [](processedClosed => (poolWg = 0 /\ \A w \in Workers : workerPc[w] = "done"))
    /\ [][processedClosed => (processedClosed' /\ forwarded' = forwarded)]_vars

\* two workers ended in different ways before the channel was closed
C9_Witness ==
    /\ processedClosed
    /\ numWorkers = 2
    /\ logChanClosed
    /\ Len(dropped) = 1
    /\ forwarded # <<>>

\* the entries with a status code of minStatus or more, in order
RECURSIVE AtOrAbove(_, _)
AtOrAbove(entries, minStatus) ==
    IF entries = <<>> THEN <<>>
    ELSE (IF Head(entries).StatusCode < minStatus THEN <<>> ELSE <<Head(entries)>>)
         \o AtOrAbove(Tail(entries), minStatus)

(***************************************************************************)
(* C10.  filterLogs sends exactly the entries of its input with a status   *)
(* code of minStatus or more, each once and in the order of the input, and *)
(* closes its output only after the input is closed and drained.           *)
(***************************************************************************)
\* C10: every entry sent has a status of 400 or more; what was sent is a
\* prefix of the entries of 400 or more received, in order; the output is
\* closed only with the input closed and drained and all of them sent
C10_FilterSendsTheSubsequence ==
    /\ \A i \in DOMAIN filterSent : filterSent[i].StatusCode >= 400
    /\ IsPrefix(filterSent, AtOrAbove(filterTaken, 400))
    /\ filterOutClosed =>
           /\ out2Closed
           /\ out2 = <<>>
           /\ filterTaken = sent2
           /\ filterSent = AtOrAbove(sent2, 400)

\* the filter passed over an entry, sent one, and closed its output
C10_Witness ==
    /\ filterOutClosed
    /\ Len(filterTaken) = 2
    /\ Len(filterSent) = 1

(***************************************************************************)
(* C11.  Both tee outputs are closed only after the input is closed and    *)
(* every entry read from it has been sent on both outputs: whenever one of *)
(* them is closed the forwarding loop has ended on the closed input, and   *)
(* the loop never sends on a closed output.                                *)
(***************************************************************************)
\* C11: an output of tee is closed only with the pool's channel closed, the
\* loop over and all it read sent on both outputs; out2 is closed first and
\* out1 by the next step of tee; nothing is sent on a closed output
C11_TeeClosesAfterItsInput ==
    /\ []((out1Closed \/ out2Closed) =>
             /\ processedClosed
             /\ teePc \in {"close1", "done"}
             /\ sent1 = forwarded
             /\ sent2 = forwarded)
    /\ [](out1Closed => out2Closed)
    /\ [][(out1Closed => sent1' = sent1) /\ (out2Closed => sent2' = sent2)]_vars

\* both outputs are closed after two entries went through
C11_Witness ==
    /\ out1Closed
    /\ out2Closed
    /\ Len(sent2) = 2

(***************************************************************************)
(* C12.  main reads the two Statistics only after both aggregator          *)
(* goroutines have finished: past wg.Wait both calculateStats calls have   *)
(* returned and stored their value, and no result variable is written      *)
(* any more.                                                               *)
(***************************************************************************)
\* C12: once main is past wg.Wait both calls are done, each result variable
\* holds what its call returned, and neither changes afterwards
C12_MainReadsAfterBothFinished ==
    /\ [](mainPc \in {"print", "done"} =>
             /\ \A b \in Branches : calc[b].pc = "done"
             /\ mainWg = 0
             /\ stats = calc["stats"].stats
             /\ filteredStats = calc["filteredStats"].stats)
    /\ [][(mainPc \in {"print", "done"}) => (stats' = stats /\ filteredStats' = filteredStats)]_vars

\* main is about to print the results of two requests, one of them an error
C12_Witness ==
    /\ mainPc = "print"
    /\ stats.TotalRequests = 2
    /\ filteredStats.TotalRequests = 1

(***************************************************************************)
(* C13.  calculateStats keeps the sum of the RequestsByIP values equal to  *)
(* TotalRequests after every entry and in what it returns, and ErrorCount  *)
(* equal to the number of entries consumed with a status of 400 or more,   *)
(* hence at most TotalRequests.                                            *)
(***************************************************************************)
\* the entries the call of branch b has consumed so far
Consumed(b) ==
    IF b = "stats" THEN SubSeq(sent1, 1, Len(sent1) - Len(out1)) ELSE filterSent

StatsConsistent(st, entries) ==
    /\ st.TotalRequests = Len(entries)
    /\ SumOver(st.RequestsByIP, DOMAIN st.RequestsByIP) = st.TotalRequests
    /\ st.ErrorCount = Cardinality({i \in DOMAIN entries : entries[i].StatusCode >= 400})
    /\ st.ErrorCount <= st.TotalRequests

\* C13: in every state, for both calls, the counts of the running Statistics
\* agree with the entries consumed; the values main holds agree with them too
C13_CountsStayConsistent ==
    /\ \A b \in Branches : StatsConsistent(calc[b].stats, Consumed(b))
    /\ mainPc \in {"print", "done"} =>
           /\ StatsConsistent(stats, Consumed("stats"))
           /\ StatsConsistent(filteredStats, Consumed("filteredStats"))

\* two requests of one IP were counted, none an error
C13_Witness ==
    /\ calc["stats"].pc = "done"
    /\ stats.TotalRequests = 2
    /\ stats.ErrorCount = 0
    /\ Cardinality(DOMAIN stats.RequestsByIP) = 1

(***************************************************************************)
(* C14.  In the Statistics calculateStats returns, AverageRespTime is 0    *)
(* when TotalRequests is 0 and otherwise the sum of the response times of  *)
(* the entries that reached the call divided by TotalRequests; it is       *)
(* written once, after the input is closed and drained.                    *)
(***************************************************************************)
RECURSIVE SumOfResponseTimes(_)
SumOfResponseTimes(entries) ==
    IF entries = <<>> THEN 0
    ELSE Head(entries).ResponseTime + SumOfResponseTimes(Tail(entries))

\* the mean of the response times of the entries, 0 for none
MeanResponseTime(entries) ==
    IF entries = <<>> THEN [num |-> 0, den |-> 1]
    ELSE [num |-> SumOfResponseTimes(entries), den |-> Len(entries)]

\* C14: while a call runs its loop the average is the zero value; once it is
\* past the loop its input is closed and drained and the average is the mean
\* of what it consumed, 0 for nothing; the average changes only in the step
\* that ends the loop
C14_AverageIsTheMean ==
    /\ [](\A b \in Branches :
             /\ calc[b].pc \in {"idle", "loop"} =>
                    calc[b].stats.AverageRespTime = [num |-> 0, den |-> 1]
             /\ calc[b].pc \in {"wgDone", "done"} =>
                    /\ InputDrained(b)
                    /\ calc[b].stats.AverageRespTime = MeanResponseTime(Consumed(b)))
    /\ [](mainPc \in {"print", "done"} =>
             /\ stats.AverageRespTime = MeanResponseTime(Consumed("stats"))
             /\ filteredStats.AverageRespTime = MeanResponseTime(Consumed("filteredStats")))
    /\ [][\A b \in Branches : (calc'[b].stats.AverageRespTime # calc[b].stats.AverageRespTime) => (calc[b].pc = "loop" /\ calc'[b].pc = "wgDone")]_vars

\* the unfiltered branch averaged two requests, the filtered branch had none
C14_Witness ==
    /\ mainPc = "print"
    /\ stats.AverageRespTime = [num |-> 20, den |-> 2]
    /\ filteredStats.TotalRequests = 0
    /\ filteredStats.AverageRespTime = [num |-> 0, den |-> 1]

(***************************************************************************)
(* C15.  The reader's file handle is released on every exit path of the    *)
(* read goroutine: whenever its output channel is closed the handle has    *)
(* been closed, and the handle is closed at most once.                     *)
(***************************************************************************)
\* C15: the output channel is closed only with the handle closed; the
\* deferred file.Close() runs on an open handle only; a closed handle stays
\* closed
C15_FileClosedBeforeOutput ==
    /\ [](logChanClosed => fileState = "closed")
    /\ [](readerPc = "closeFile" => fileState = "open")
    /\ [][fileState = "closed" => fileState' = "closed"]_vars

\* the reader ended on the cancellation, short of the rows of the file
C15_Witness ==
    /\ logChanClosed
    /\ fileState = "closed"
    /\ mainPc = "wait"
    /\ cancelled
    /\ Len(taken) < Cardinality(WellFormedRows)

(***************************************************************************)
(* C16.  When the input file cannot be opened readLogs returns an error    *)
(* and no channel: no read goroutine is started, no entry is produced, no  *)
(* stage is created and main aborts without Statistics.                    *)
(***************************************************************************)
\* C16: with a file that does not open, main is before readLogs or ended in
\* log.Fatalf, every goroutine is unstarted, nothing crossed a channel and
\* both result variables hold the zero value
C16_OpenFailureAborts ==
    ~canOpen =>
        /\ mainPc \in {"readLogs", "fatal"}
        /\ fileState = "unopened"
        /\ readerPc = "idle"
        /\ \A w \in Workers : workerPc[w] = "idle"
        /\ teePc = "idle"
        /\ filterPc = "idle"
        /\ \A b \in Branches : calc[b].pc = "idle"
        /\ taken = <<>> /\ forwarded = <<>> /\ sent1 = <<>> /\ sent2 = <<>>
        /\ stats = ZeroStatistics
        /\ filteredStats = ZeroStatistics

\* main ended in log.Fatalf
C16_Witness ==
    /\ ~canOpen
    /\ mainPc = "fatal"

(***************************************************************************)
(* C18.  tee couples the two branches: what was sent on output 1 is what   *)
(* was sent on output 2 or one entry more, and when the consumer of an     *)
(* output has received k entries at most k + capacity were sent on that    *)
(* output and at most k + capacity + 1 on the other.                       *)
(***************************************************************************)
\* the number of entries the consumer of each tee output has received
Received1 == calc["stats"].stats.TotalRequests
Received2 == Len(filterTaken)

\* C18: output 1 is ahead of output 2 by 0 or 1 entry, and neither output is
\* ahead of either consumer by more than the capacity, plus one for the
\* other branch's consumer
C18_TeeBackpressure ==
    /\ Len(sent1) - Len(sent2) \in {0, 1}
    /\ Len(sent1) <= Received1 + bufferSize
    /\ Len(sent2) <= Received1 + bufferSize + 1
    /\ Len(sent2) <= Received2 + bufferSize
    /\ Len(sent1) <= Received2 + bufferSize + 1

\* the filter has read nothing: output 1 got capacity + 1 entries and tee
\* stands at its send on the full output 2
C18_Witness ==
    /\ Received2 = 0
    /\ Len(sent1) = bufferSize + 1
    /\ teePc = "send2"
    /\ Len(out2) = bufferSize

(***************************************************************************)
(* C20.  Channel discipline: each channel between two stages is closed at  *)
(* most once, by the stage that sends on it, and no goroutine sends on a   *)
(* closed channel, cancelled or not.                                       *)
(***************************************************************************)
\* C20: a closed channel has its sender past every send and past its close
\* (the reader, every worker and the pool's closing goroutine, tee, the
\* filter); a closed channel stays closed and nothing more crosses it
C20_ChannelDiscipline ==
    /\ [](logChanClosed => readerPc = "done")
    /\ [](processedClosed => (poolWg = 0 /\ \A w \in Workers : workerPc[w] = "done"))
    /\ [](out2Closed => teePc \in {"close1", "done"})
    /\ [](out1Closed => teePc = "done")
    /\ [](filterOutClosed => filterPc = "done")
    /\ [][(logChanClosed => (logChanClosed' /\ taken' = taken)) /\ (processedClosed => (processedClosed' /\ forwarded' = forwarded))]_vars
    /\ [][(out1Closed => (out1Closed' /\ sent1' = sent1)) /\ (out2Closed => (out2Closed' /\ sent2' = sent2))]_vars
    /\ [][filterOutClosed => (filterOutClosed' /\ filterSent' = filterSent)]_vars

\* a cancelled run closed all five channels after an entry went through
C20_Witness ==
    /\ logChanClosed /\ processedClosed /\ out1Closed /\ out2Closed /\ filterOutClosed
    /\ takenAtCancel >= 0
    /\ mainPc = "wait"
    /\ forwarded # <<>>

(***************************************************************************)
(* C19.  Cancellation is observed at iteration boundaries only: after the  *)
(* cancellation the reader sends at most one more entry, the one whose     *)
(* check of ctx.Done() came before it, and each worker forwards at most    *)
(* one more entry, so at most numWorkers entries reach the pool's output.  *)
(***************************************************************************)
\* the workers standing at their send
AtSend == {w \in Workers : workerPc[w] = "send"}

\* C19: counted from the call of cancel at most one more entry leaves the
\* reader; from any state after the call on, at most numWorkers more entries
\* leave the pool; after the call neither the reader nor a worker comes to a
\* send it was not already at, and a step that forwards an entry takes one
\* worker away from its send
C19_CancelSeenAtIterationBoundaries ==
    /\ [](cancelled => Len(taken) - takenAtCancel \in {0, 1})
    /\ \A k \in 0 .. MaxLines :
          []((cancelled /\ Len(forwarded) = k) => [](Len(forwarded) <= k + numWorkers))
    /\ [][cancelled => ((readerPc' = "send") => (readerPc = "send"))]_vars
    /\ [][cancelled => (AtSend' \subseteq AtSend)]_vars
    /\ [][(cancelled /\ forwarded' # forwarded) => (Len(forwarded') = Len(forwarded) + 1 /\ Cardinality(AtSend') = Cardinality(AtSend) - 1)]_vars

\* cancel was called with the reader and the one worker at their sends: one
\* more entry left the reader, one more the pool, and the worker gave up the
\* entry it received after the call
C19_Witness ==
    /\ cancelled
    /\ mainPc = "wait"
    /\ numWorkers = 1
    /\ Len(taken) = takenAtCancel + 1
    /\ Len(forwarded) = 1
    /\ dropped # <<>>

(***************************************************************************)
(* printTopIPs called on its own, on maps of up to four addresses with     *)
(* counts 1 .. MaxCount and n in 0 .. MaxTop.                              *)
(***************************************************************************)
MaxCount == 5
MaxTop   == 3

IPs == {"A", "B", "C", "D"}

RequestMaps == UNION {[S -> 1 .. MaxCount] : S \in SUBSET IPs}

InitTop ==
    /\ file = <<>>
    /\ canOpen = FALSE
    /\ numWorkers = 1
    /\ bufferSize = 1
    /\ topMap \in RequestMaps
    /\ topN \in 0 .. MaxTop
    /\ InitState

\* the call printTopIPs(topMap, topN)
PrintTopIPs ==
    /\ topOut = NothingPrinted
    /\ \E order \in RangeOrders(topMap) :
           topOut' = printTopIPs(topMap, topN, order)
    /\ UNCHANGED <<inputVars, cancelled, mainPc, mainWg, stats, filteredStats,
                   readerVars, poolVars, teeVars, filterVars, calc, histVars>>

NextTop == PrintTopIPs

TopSpec == InitTop /\ [][NextTop]_vars

(***************************************************************************)
(* C17.  printTopIPs(requestsByIP, n) prints min(n, number of distinct     *)
(* IPs) entries, in non-increasing order of count, and every printed entry *)
(* has a count >= the count of every IP not printed; A:3, B:5, C:1 with    *)
(* n = 2 yields B:5 then A:3.                                              *)
(***************************************************************************)
Min(a, b) == IF a < b THEN a ELSE b

\* the map A:3, B:5, C:1
SampleMap == [ip \in {"A", "B", "C"} |-> CASE ip = "A" -> 3 [] ip = "B" -> 5 [] ip = "C" -> 1]

PrintedIPs == {topOut.rows[i].ip : i \in DOMAIN topOut.rows}

\* C17: after the call the header and the number of rows are min(n, number
\* of addresses); the rows are entries of the map, one per address, in
\* non-increasing order of count, and no address left out has a larger count
\* than a printed one; for A:3, B:5, C:1 and n = 2 the rows are B:5, A:3
C17_TopIPsAreTheLargest ==
    topOut # NothingPrinted =>
        /\ topOut.header = <<Min(topN, Cardinality(DOMAIN topMap))>>
        /\ Len(topOut.rows) = Min(topN, Cardinality(DOMAIN topMap))
        /\ \A i \in DOMAIN topOut.rows :
              /\ topOut.rows[i].ip \in DOMAIN topMap
              /\ topOut.rows[i].count = topMap[topOut.rows[i].ip]
        /\ \A i, j \in DOMAIN topOut.rows :
              /\ i # j => topOut.rows[i].ip # topOut.rows[j].ip
              /\ i < j => topOut.rows[i].count >= topOut.rows[j].count
        /\ \A i \in DOMAIN topOut.rows : \A ip \in DOMAIN topMap \ PrintedIPs :
              topOut.rows[i].count >= topMap[ip]
        /\ (topMap = SampleMap /\ topN = 2) =>
               topOut.rows = <<[ip |-> "B", count |-> 5], [ip |-> "A", count |-> 3]>>

\* the call on A:3, B:5, C:1 with n = 2 has printed
C17_Witness ==
    /\ topMap = SampleMap
    /\ topN = 2
    /\ topOut.header = <<2>>
    /\ Len(topOut.rows) = 2

====
